---- MODULE Spec2Model ----
(***************************************************************************)
(* Service worker of Farmacia Vivo Mas (src/sw.js): the install, activate, *)
(* fetch and message listeners, the three caching strategies and the URL   *)
(* classifiers, over a model of CacheStorage (named caches in creation     *)
(* order, each a map from request URL to stored response) and of the       *)
(* network (every fetch resolves with a 2xx or non-2xx response of its own *)
(* or rejects).                                                            *)
(* Every await of the source is one step; steps of different tasks         *)
(* interleave freely.                                                      *)
(***************************************************************************)
EXTENDS Integers, Sequences, FiniteSets, TLC

\* ---------------------------------------------------------------- bounds
MaxTasks == 1        \* fetch events dispatched in one run
MaxCalls == 2        \* direct calls of a strategy in one run
MaxStorageCalls == 1 \* direct calls of a strategy in one run on failing storage

\* ------------------------------------------------------------- constants
CACHE_NAME == "vivomas-v1.0.0"
STATIC_CACHE == "vivomas-static-v1"
DYNAMIC_CACHE == "vivomas-dynamic-v1"

STATIC_ASSETS ==
  << "/", "/index.html", "/src/main.jsx", "/src/App.jsx", "/src/App.css",
     "/src/index.css", "/logo-vivomas-transparente.png",
     "/Logo-Vivo-Mas-Icono.png", "/logo-vivomas-2.png", "/manifest.json" >>

PRODUCT_IMAGES ==
  << "/productos/citrato_magnesio.png", "/productos/citrato_potasio.png",
     "/productos/vitamina_d3.png", "/productos/colageno_hidrolizado.png",
     "/productos/blistex_variedades.png",
     "/productos/test_embarazo_cassette.png" >>

BRANCH_IMAGES ==
  << "/sucursal_castellon.jpg", "/sucursal_ohiggins.jpg",
     "/sucursal_chillan.jpg", "/sucursal_yumbel.jpg", "/sucursal_rengo.png" >>

\* The origin the worker is served from: relative asset paths handed to
\* cache.addAll are resolved against it, and request.url is always absolute.
ORIGIN == "https://josealarconortega.github.io"

\* Cache generations left behind by an earlier version of the worker, in
\* the order they were created in. The worker starts on an origin that holds
\* them, or on a fresh one.
OLD_CACHES == << "vivomas-static-v0", "vivomas-dynamic-v0" >>

CacheNames == {STATIC_CACHE, DYNAMIC_CACHE} \cup {OLD_CACHES[i] : i \in 1..Len(OLD_CACHES)}

\* ------------------------------------------------------------- utilities
Range(s) == {s[i] : i \in 1..Len(s)}

\* String.prototype.includes: t occurs in s as a substring.
Includes(s, t) ==
  \E i \in 1..(Len(s) + 1 - Len(t)) : SubSeq(s, i, i + Len(t) - 1) = t

\* Array.prototype.slice(0, n)
Slice0(s, n) == SubSeq(s, 1, IF n < Len(s) THEN n ELSE Len(s))

\* The absolute URL a relative path of the asset lists resolves to.
Resolve(path) == ORIGIN \o path

ResolveAll(list) == {Resolve(list[i]) : i \in 1..Len(list)}

\* The five images primed into the dynamic cache at install.
PrimingList == Slice0(PRODUCT_IMAGES, 3) \o Slice0(BRANCH_IMAGES, 2)

isStaticAsset(url) ==
  \/ \E i \in 1..Len(STATIC_ASSETS) : Includes(url, STATIC_ASSETS[i])
  \/ Includes(url, ".css")
  \/ Includes(url, ".js")
  \/ Includes(url, ".woff")
  \/ Includes(url, ".woff2")

isImage(url) ==
  \/ Includes(url, ".jpg")
  \/ Includes(url, ".jpeg")
  \/ Includes(url, ".png")
  \/ Includes(url, ".webp")
  \/ Includes(url, ".svg")
  \/ Includes(url, "/productos/")
  \/ Includes(url, "/sucursal_")
  \/ Includes(url, "/convenios/")

isExternalAPI(url) ==
  \/ Includes(url, "wa.me")
  \/ Includes(url, "google.com/maps")
  \/ Includes(url, "facebook.com")
  \/ Includes(url, "instagram.com")
  \/ Includes(url, "googleapis.com")

\* request.headers.get('accept')?.includes('text/html')
AcceptsHtml(req) == Includes(req.accept, "text/html")

\* ------------------------------------------------------------- responses
\* tag names the fetch a response came from: every fetch produces a response
\* of its own, so that the responses of two fetches are told apart. 0 is for
\* the fetches of the install's cache.addAll and for synthesized responses,
\* i for the fetch of the i-th task.
NoResp == [status |-> 0, body |-> "", tag |-> 0]

\* The response of the network to the fetch tagged tag.
NetResponse(status, tag) == [status |-> status, body |-> "network", tag |-> tag]

\* Response.ok
Ok(resp) == resp.status >= 200 /\ resp.status <= 299

CacheFirst503 == [status |-> 503, body |-> "Recurso no disponible offline", tag |-> 0]
NetworkFirst503 == [status |-> 503, body |-> "Contenido no disponible offline", tag |-> 0]
Timeout503 == [status |-> 503, body |-> "Servicio no disponible", tag |-> 0]

\* Statuses a settled fetch may carry: one ok, one not ok.
NetStatuses == {200, 404}

\* ---------------------------------------------------------------- inputs
\* The fetch events the page raises.
Requests ==
  { [method |-> "GET",  url |-> Resolve("/index.html"), accept |-> "text/html,application/xhtml+xml"],
    [method |-> "GET",  url |-> Resolve("/productos/x.png"), accept |-> "image/*"],
    [method |-> "GET",  url |-> "https://wa.me/56912345678", accept |-> "*/*"],
    [method |-> "POST", url |-> Resolve("/index.html"), accept |-> "*/*"] }

\* In a failing cache.addAll, the requests whose fetch failed or was not ok:
\* none, exactly one of the list, or all of it.
FailureSets(urls) == {{}} \cup {{u} : u \in urls} \cup {urls}

\* ----------------------------------------------------------------- state
VARIABLES
  lifecycle,      \* parsed, installing, installed, activating, activated, redundant
  inst,           \* the running (or last) install: its two population chains
  skipWaitingFlag,\* self.skipWaiting() was called
  cacheOrder,     \* names of the existing caches, in creation order
  entries,        \* per cache name: request URL -> stored response
  staticIntact,   \* the static cache still holds what a successful install put
  act,            \* the running (or last) activate
  claimed,        \* self.clients.claim() was called
  tasks,          \* the fetch events (or strategy calls) so far, in order
  clr,            \* the running (or last) CLEAR_CACHE
  versionReplies  \* the payloads posted in answer to GET_VERSION

vars == << lifecycle, inst, skipWaitingFlag, cacheOrder, entries,
           staticIntact, act, claimed, tasks, clr, versionReplies >>

lifeVars == << lifecycle, inst, skipWaitingFlag >>
cacheVars == << cacheOrder, entries, staticIntact >>
actVars == << act, claimed >>
msgVars == << clr, versionReplies >>

Exists(n) == n \in Range(cacheOrder)

EmptyEntries == [u \in {} |-> NoResp]

InstIdle ==
  [static |-> "idle", dynamic |-> "idle", result |-> "idle",
   staticLive |-> FALSE, dynamicLive |-> FALSE]

ActIdle ==
  [pc |-> "idle", rerun |-> FALSE, names |-> {}, pending |-> {}, deleted |-> {}]

ClrIdle == [pc |-> "idle", names |-> {}, pending |-> {}, deleted |-> {}]

Init ==
  /\ lifecycle = "parsed"
  /\ inst = InstIdle
  /\ skipWaitingFlag = FALSE
  /\ cacheOrder \in {<< >>, OLD_CACHES}
  /\ entries = [n \in CacheNames |-> EmptyEntries]
  /\ staticIntact = FALSE
  /\ act = ActIdle
  /\ claimed = FALSE
  /\ tasks = << >>
  /\ clr = ClrIdle
  /\ versionReplies = {}

\* ------------------------------------------------------------ CacheStorage
\* caches.open(name): the cache is created, last in order, when missing.
Opened(order, n) == IF n \in Range(order) THEN order ELSE Append(order, n)

\* cache.put / the puts of cache.addAll: each key is set, others are kept.
PutAll(e, keys, resp) ==
  [k \in DOMAIN e \cup keys |-> IF k \in keys THEN resp ELSE e[k]]

\* caches.match(request): the first cache, in creation order, that holds the
\* request's URL answers; NoResp stands for undefined.
RECURSIVE MatchFrom(_, _)
MatchFrom(i, url) ==
  IF i > Len(cacheOrder) THEN NoResp
  ELSE IF url \in DOMAIN entries[cacheOrder[i]] THEN entries[cacheOrder[i]][url]
  ELSE MatchFrom(i + 1, url)

\* Mutant of Match: only the dynamic cache is looked into.
MatchDynamicOnly(url) ==
  IF DYNAMIC_CACHE \in Range(cacheOrder) /\ url \in DOMAIN entries[DYNAMIC_CACHE]
  THEN entries[DYNAMIC_CACHE][url]
  ELSE NoResp

Match(url) == MatchFrom(1, url)

\* A Cache object obtained from caches.open keeps working after its cache is
\* deleted, on storage no lookup reaches any more: a task holding such an
\* object (an issued put, a running addAll) loses its cache when n is deleted,
\* and what a finished put wrote is gone with the cache.
OrphanTasks(n) ==
  [i \in 1..Len(tasks) |->
     IF tasks[i].cache = n THEN [tasks[i] EXCEPT !.live = FALSE] ELSE tasks[i]]

OrphanInstall(n) ==
  [inst EXCEPT !.staticLive = @ /\ n # STATIC_CACHE,
               !.dynamicLive = @ /\ n # DYNAMIC_CACHE]

\* caches.delete(name) completing.
DeleteCache(n) ==
  /\ cacheOrder' = SelectSeq(cacheOrder, LAMBDA x : x # n)
  /\ entries' = [entries EXCEPT ![n] = EmptyEntries]
  /\ staticIntact' = (staticIntact /\ n # STATIC_CACHE)
  /\ tasks' = OrphanTasks(n)
  /\ inst' = OrphanInstall(n)

\* ------------------------------------------------------------------ install
\* Promise.all over the two population chains, as event.waitUntil sees it:
\* rejected as soon as one chain rejects, fulfilled when both are fulfilled.
InstallResult(static, dynamic, current) ==
  IF current # "pending" THEN current
  ELSE IF static = "failed" \/ dynamic = "failed" THEN "failed"
  ELSE IF static = "ok" /\ dynamic = "ok" THEN "ok"
  ELSE "pending"

\* The worker's state once the install's waitUntil promise has settled.
AfterInstall(result, current) ==
  IF current # "installing" THEN current
  ELSE IF result = "failed" THEN "redundant"
  ELSE IF result = "ok" THEN "installed"
  ELSE current

\* The install listener runs: both caches.open calls are issued and
\* skipWaiting is called. A worker whose install failed is installed anew
\* (a new instance: what the failed one still had running is dropped).
InstallEvent ==
  /\ \/ lifecycle = "parsed"
     \/ lifecycle = "redundant"
  /\ lifecycle' = "installing"
  /\ inst' = [InstIdle EXCEPT !.static = "open", !.dynamic = "open",
                              !.result = "pending"]
  /\ skipWaitingFlag' = TRUE
  /\ UNCHANGED << cacheVars, actVars, tasks, msgVars >>

\* caches.open(STATIC_CACHE) resolves; cache.addAll(STATIC_ASSETS) is called.
InstallStaticOpen ==
  /\ inst.static = "open"
  /\ cacheOrder' = Opened(cacheOrder, STATIC_CACHE)
  /\ inst' = [inst EXCEPT !.static = "addAll", !.staticLive = TRUE]
  /\ UNCHANGED << lifecycle, skipWaitingFlag, entries, staticIntact,
                  actVars, tasks, msgVars >>

\* cache.addAll(STATIC_ASSETS) settles: every asset was fetched; when all the
\* responses are ok they are stored together, otherwise nothing is stored and
\* the chain rejects.
InstallStaticAddAll ==
  /\ inst.static = "addAll"
  /\ \E bad \in FailureSets(ResolveAll(STATIC_ASSETS)) :
       LET ok == bad = {}
           st == IF ok THEN "ok" ELSE "failed"
           res == InstallResult(st, inst.dynamic, inst.result)
       IN /\ inst' = [inst EXCEPT !.static = st, !.result = res,
                                   !.staticLive = FALSE]
          /\ lifecycle' = AfterInstall(res, lifecycle)
          /\ entries' =
               IF ok /\ inst.staticLive
               THEN [entries EXCEPT ![STATIC_CACHE] =
                       PutAll(@, ResolveAll(STATIC_ASSETS),
                              NetResponse(200, 0))]
               ELSE entries
          /\ staticIntact' = (staticIntact \/ (ok /\ inst.staticLive))
  /\ UNCHANGED << skipWaitingFlag, cacheOrder, actVars, tasks,
                  msgVars >>

\* caches.open(DYNAMIC_CACHE) resolves; cache.addAll of the priming list is
\* called.
InstallDynamicOpen ==
  /\ inst.dynamic = "open"
  /\ cacheOrder' = Opened(cacheOrder, DYNAMIC_CACHE)
  /\ inst' = [inst EXCEPT !.dynamic = "addAll", !.dynamicLive = TRUE]
  /\ UNCHANGED << lifecycle, skipWaitingFlag, entries, staticIntact,
                  actVars, tasks, msgVars >>

\* cache.addAll of the priming list settles.
InstallDynamicAddAll ==
  /\ inst.dynamic = "addAll"
  /\ \E bad \in FailureSets(ResolveAll(PrimingList)) :
       LET ok == bad = {}
           dy == IF ok THEN "ok" ELSE "failed"
           res == InstallResult(inst.static, dy, inst.result)
       IN /\ inst' = [inst EXCEPT !.dynamic = dy, !.result = res,
                                   !.dynamicLive = FALSE]
          /\ lifecycle' = AfterInstall(res, lifecycle)
          /\ entries' =
               IF ok /\ inst.dynamicLive
               THEN [entries EXCEPT ![DYNAMIC_CACHE] =
                       PutAll(@, ResolveAll(PrimingList),
                              NetResponse(200, 0))]
               ELSE entries
  /\ UNCHANGED << skipWaitingFlag, cacheOrder, staticIntact, actVars,
                  tasks, msgVars >>

\* ----------------------------------------------------------------- activate
\* Mutant of IsStale: the dynamic cache's name is not compared.
IsStaleStaticOnly(cacheName) == cacheName # STATIC_CACHE

\* cacheName !== STATIC_CACHE && cacheName !== DYNAMIC_CACHE
IsStale(cacheName) == cacheName # STATIC_CACHE /\ cacheName # DYNAMIC_CACHE

\* The activate listener runs: caches.keys() is issued and clients.claim() is
\* called. The event is dispatched to an installed worker, and may be
\* dispatched again once an activation has finished.
ActivateEvent ==
  /\ \/ lifecycle = "installed"
     \/ lifecycle = "activated" /\ act.pc = "done"
  /\ lifecycle' = IF lifecycle = "installed" THEN "activating" ELSE lifecycle
  /\ act' = [ActIdle EXCEPT !.pc = "keys", !.rerun = (lifecycle = "activated")]
  /\ claimed' = TRUE
  /\ UNCHANGED << inst, skipWaitingFlag, cacheVars, tasks, msgVars >>

\* caches.keys() resolves: caches.delete is called for every stale name.
ActivateKeys ==
  /\ act.pc = "keys"
  /\ act' = [act EXCEPT !.pc = "deleting",
                        !.names = Range(cacheOrder),
                        !.pending = {n \in Range(cacheOrder) : IsStale(n)}]
  /\ UNCHANGED << lifeVars, cacheVars, claimed, tasks, msgVars >>

\* One of the issued caches.delete calls completes.
ActivateDelete(n) ==
  /\ act.pc = "deleting"
  /\ n \in act.pending
  /\ DeleteCache(n)
  /\ act' = [act EXCEPT !.pending = @ \ {n}, !.deleted = @ \cup {n}]
  /\ UNCHANGED << lifecycle, skipWaitingFlag, claimed,
                  msgVars >>

\* Promise.all over the deletes resolves: the activation is finished, and
\* what the listener had enumerated is gone with it.
ActivateDone ==
  /\ act.pc = "deleting"
  /\ act.pending = {}
  /\ act' = [ActIdle EXCEPT !.pc = "done", !.rerun = act.rerun]
  /\ lifecycle' = IF lifecycle = "activating" THEN "activated" ELSE lifecycle
  /\ UNCHANGED << inst, skipWaitingFlag, cacheVars, claimed, tasks, msgVars >>

\* ----------------------------------------------------------------- messages
MessageTypes == {"SKIP_WAITING", "GET_VERSION", "CLEAR_CACHE"}

\* The message listener runs on event.data.type: skipWaiting is called, the
\* version is posted, or caches.keys() is issued for the clear. One clear
\* runs at a time.
MessageEvent(type) ==
  /\ lifecycle # "parsed"
  /\ type = "CLEAR_CACHE" => clr.pc \in {"idle", "replied"}
  /\ skipWaitingFlag' = (skipWaitingFlag \/ type = "SKIP_WAITING")
  /\ versionReplies' =
       IF type = "GET_VERSION"
       THEN versionReplies \cup {[version |-> CACHE_NAME]}
       ELSE versionReplies
  /\ clr' = IF type = "CLEAR_CACHE" THEN [ClrIdle EXCEPT !.pc = "keys"] ELSE clr
  /\ UNCHANGED << lifecycle, inst, cacheVars, actVars, tasks >>

\* caches.keys() of the clear resolves: caches.delete is called for every name.
ClearKeys ==
  /\ clr.pc = "keys"
  /\ clr' = [clr EXCEPT !.pc = "deleting",
                        !.names = Range(cacheOrder),
                        !.pending = Range(cacheOrder)]
  /\ UNCHANGED << lifeVars, cacheVars, actVars, tasks, versionReplies >>

\* One of the clear's caches.delete calls completes.
ClearDelete(n) ==
  /\ clr.pc = "deleting"
  /\ n \in clr.pending
  /\ DeleteCache(n)
  /\ clr' = [clr EXCEPT !.pending = @ \ {n}, !.deleted = @ \cup {n}]
  /\ UNCHANGED << lifecycle, skipWaitingFlag, actVars, versionReplies >>

\* Mutant of ClearReply: the reply does not wait for the deletes.
ClearReplyEarly ==
  /\ clr.pc = "deleting"
  /\ clr' = [ClrIdle EXCEPT !.pc = "replied"]
  /\ UNCHANGED << lifeVars, cacheVars, actVars, tasks, versionReplies >>

\* Promise.all over the clear's deletes resolves: {success: true} is posted.
ClearReply ==
  /\ clr.pc = "deleting"
  /\ clr.pending = {}
  /\ clr' = [ClrIdle EXCEPT !.pc = "replied"]
  /\ UNCHANGED << lifeVars, cacheVars, actVars, tasks, versionReplies >>

\* -------------------------------------------------------------------- fetch
\* A fetch event the worker does not answer: the browser handles the request.
NewTask(req) ==
  [req |-> req, strategy |-> "none", pc |-> "done", responded |-> FALSE,
   result |-> NoResp, via |-> "none", ops |-> {}, fetches |-> 0,
   net |-> NoResp, netState |-> "none", timer |-> "none", race |-> "none",
   returns |-> 0, cache |-> "", live |-> FALSE, failed |-> "none"]

\* The strategy the fetch listener hands a GET request to.
StrategyFor(req) ==
  IF isStaticAsset(req.url) THEN "cacheFirst"
  ELSE IF isImage(req.url) THEN "networkFirst"
  ELSE IF AcceptsHtml(req) THEN "networkFirst"
  ELSE IF isExternalAPI(req.url) THEN "networkWithTimeout"
  ELSE "networkFirst"

\* The strategy function runs up to its first await: cacheFirst has called
\* caches.match, networkFirst has called fetch, networkWithTimeout has
\* started its timer and called fetch.
Started(strategy, req) ==
  IF strategy = "cacheFirst"
  THEN [NewTask(req) EXCEPT !.strategy = strategy, !.pc = "cf_match",
                            !.ops = {"match"}]
  ELSE IF strategy = "networkFirst"
  THEN [NewTask(req) EXCEPT !.strategy = strategy, !.pc = "nf_fetch",
                            !.ops = {"fetch"}, !.fetches = 1,
                            !.netState = "pending"]
  ELSE [NewTask(req) EXCEPT !.strategy = strategy, !.pc = "nwt_race",
                            !.ops = {"fetch"}, !.fetches = 1,
                            !.netState = "pending", !.timer = "pending",
                            !.race = "pending"]

\* Mutant of FetchEvent: the method is not looked at.
FetchEventAnyMethod(req) ==
  /\ lifecycle = "activated"
  /\ Len(tasks) < MaxTasks
  /\ tasks' = Append(tasks,
       [Started(StrategyFor(req), req) EXCEPT !.responded = TRUE])
  /\ UNCHANGED << lifeVars, cacheVars, actVars, msgVars >>

\* The fetch listener runs on a request of a controlled page: a request that
\* is not a GET is left alone, any other is answered, through respondWith,
\* by the strategy chosen for it.
FetchEvent(req) ==
  /\ lifecycle = "activated"
  /\ Len(tasks) < MaxTasks
  /\ tasks' = Append(tasks,
       IF req.method # "GET" THEN NewTask(req)
       ELSE [Started(StrategyFor(req), req) EXCEPT !.responded = TRUE])
  /\ UNCHANGED << lifeVars, cacheVars, actVars, msgVars >>

\* cacheFirst: caches.match(request) resolves. A hit is returned; on a miss
\* fetch(request) is called.
CacheFirstMatch(i) ==
  /\ tasks[i].pc = "cf_match"
  /\ LET hit == Match(tasks[i].req.url)
     IN tasks' = [tasks EXCEPT ![i] =
          IF hit # NoResp
          THEN [@ EXCEPT !.pc = "done", !.result = hit, !.via = "cache",
                         !.returns = @ + 1]
          ELSE [@ EXCEPT !.pc = "cf_fetch", !.ops = @ \cup {"fetch"},
                         !.fetches = @ + 1, !.netState = "pending"]]
  /\ UNCHANGED << lifeVars, cacheVars, actVars, msgVars >>

\* cacheFirst: fetch(request) rejects; the catch block answers 503.
CacheFirstFetchFails(i) ==
  /\ tasks[i].pc = "cf_fetch"
  /\ tasks' = [tasks EXCEPT ![i] =
       [@ EXCEPT !.pc = "done", !.netState = "rejected",
                 !.result = CacheFirst503, !.via = "synthesized",
                 !.returns = @ + 1]]
  /\ UNCHANGED << lifeVars, cacheVars, actVars, msgVars >>

\* Mutant of CacheFirstFetch: networkResponse.ok is not tested, every
\* response goes on to be stored.
CacheFirstFetchStoresAny(i) ==
  /\ tasks[i].pc = "cf_fetch"
  /\ \E status \in NetStatuses :
       tasks' = [tasks EXCEPT ![i] =
         [@ EXCEPT !.pc = "cf_open", !.netState = "resolved",
                   !.net = NetResponse(status, i), !.ops = @ \cup {"open"}]]
  /\ UNCHANGED << lifeVars, cacheVars, actVars, msgVars >>

\* cacheFirst: fetch(request) resolves. An ok response waits for
\* caches.open(STATIC_CACHE); any other is returned as it is.
CacheFirstFetch(i) ==
  /\ tasks[i].pc = "cf_fetch"
  /\ \E status \in NetStatuses :
       LET resp == NetResponse(status, i)
       IN tasks' = [tasks EXCEPT ![i] =
            IF Ok(resp)
            THEN [@ EXCEPT !.pc = "cf_open", !.netState = "resolved",
                           !.net = resp, !.ops = @ \cup {"open"}]
            ELSE [@ EXCEPT !.pc = "done", !.netState = "resolved",
                           !.net = resp, !.result = resp, !.via = "network",
                           !.returns = @ + 1]]
  /\ UNCHANGED << lifeVars, cacheVars, actVars, msgVars >>

\* cacheFirst: caches.open(STATIC_CACHE) resolves; cache.put is called, not
\* awaited, and the network response is returned.
CacheFirstOpen(i) ==
  /\ tasks[i].pc = "cf_open"
  /\ cacheOrder' = Opened(cacheOrder, STATIC_CACHE)
  /\ tasks' = [tasks EXCEPT ![i] =
       [@ EXCEPT !.pc = "cf_put", !.ops = @ \cup {"put"},
                 !.cache = STATIC_CACHE, !.live = TRUE,
                 !.result = tasks[i].net, !.via = "network", !.returns = @ + 1]]
  /\ UNCHANGED << lifeVars, entries, staticIntact, actVars, msgVars >>

\* cacheFirst: the put completes, on the cache the task opened. From then on
\* live tells whether the cache written to is still there.
CacheFirstPut(i) ==
  /\ tasks[i].pc = "cf_put"
  /\ entries' =
       IF tasks[i].live
       THEN [entries EXCEPT ![STATIC_CACHE] =
               PutAll(@, {tasks[i].req.url}, tasks[i].net)]
       ELSE entries
  /\ tasks' = [tasks EXCEPT ![i] = [@ EXCEPT !.pc = "done"]]
  /\ UNCHANGED << lifeVars, cacheOrder, staticIntact, actVars, msgVars >>

\* --------------------------------------------------------------------- Spec
Next ==
  \/ InstallEvent
  \/ InstallStaticOpen
  \/ InstallStaticAddAll
  \/ InstallDynamicOpen
  \/ InstallDynamicAddAll
  \/ ActivateEvent
  \/ ActivateKeys
  \/ \E n \in CacheNames : ActivateDelete(n)
  \/ ActivateDone
  \/ \E type \in MessageTypes : MessageEvent(type)
  \/ ClearKeys
  \/ \E n \in CacheNames : ClearDelete(n)
  \/ ClearReply
  \/ \E req \in Requests : FetchEvent(req)
  \/ \E i \in 1..Len(tasks) : CacheFirstMatch(i)
  \/ \E i \in 1..Len(tasks) : CacheFirstFetch(i)
  \/ \E i \in 1..Len(tasks) : CacheFirstFetchFails(i)
  \/ \E i \in 1..Len(tasks) : CacheFirstOpen(i)
  \/ \E i \in 1..Len(tasks) : CacheFirstPut(i)

Spec == Init /\ [][Next]_vars

\* ------------------------------------------------------- networkWithTimeout
\* Promise.race: the first of the two promises to settle settles the race,
\* what settles later changes nothing.
RaceSettle(race, who) == IF race = "pending" THEN who ELSE race

\* networkWithTimeout(request, 5000) is called: the timer is started and
\* fetch(request) is called.
CallNetworkWithTimeout(req) ==
  /\ Len(tasks) < MaxCalls
  /\ tasks' = Append(tasks, Started("networkWithTimeout", req))
  /\ UNCHANGED << lifeVars, cacheVars, actVars, msgVars >>

\* fetch(request) settles, before or after the timer: it resolves with a
\* response or rejects.
NWTFetchSettles(i) ==
  /\ tasks[i].strategy = "networkWithTimeout"
  /\ tasks[i].netState = "pending"
  /\ \E status \in NetStatuses \cup {0} :
       tasks' = [tasks EXCEPT ![i] =
         IF status = 0
         THEN [@ EXCEPT !.netState = "rejected",
                        !.race = RaceSettle(@, "network")]
         ELSE [@ EXCEPT !.netState = "resolved",
                        !.net = NetResponse(status, i),
                        !.race = RaceSettle(@, "network")]]
  /\ UNCHANGED << lifeVars, cacheVars, actVars, msgVars >>

\* Mutant of NWTTimerFires: a timer that fires after the fetch has settled
\* the race takes the race over.
NWTTimerFiresLast(i) ==
  /\ tasks[i].strategy = "networkWithTimeout"
  /\ tasks[i].timer = "pending"
  /\ tasks' = [tasks EXCEPT ![i] =
       [@ EXCEPT !.timer = "fired", !.race = "timer"]]
  /\ UNCHANGED << lifeVars, cacheVars, actVars, msgVars >>

\* Mutant of NWTTimerFires: the timer fires without rejecting the timeout
\* promise.
NWTTimerFiresSilently(i) ==
  /\ tasks[i].strategy = "networkWithTimeout"
  /\ tasks[i].timer = "pending"
  /\ tasks' = [tasks EXCEPT ![i] = [@ EXCEPT !.timer = "fired"]]
  /\ UNCHANGED << lifeVars, cacheVars, actVars, msgVars >>

\* The timer fires, before or after the fetch settles: the timeout promise
\* rejects.
NWTTimerFires(i) ==
  /\ tasks[i].strategy = "networkWithTimeout"
  /\ tasks[i].timer = "pending"
  /\ tasks' = [tasks EXCEPT ![i] =
       [@ EXCEPT !.timer = "fired", !.race = RaceSettle(@, "timer")]]
  /\ UNCHANGED << lifeVars, cacheVars, actVars, msgVars >>

\* The await of the race resumes: the response of a race the fetch won by
\* resolving is returned, a rejected race is caught and answered 503.
NWTReturn(i) ==
  /\ tasks[i].pc = "nwt_race"
  /\ tasks[i].race # "pending"
  /\ tasks' = [tasks EXCEPT ![i] =
       IF tasks[i].race = "network" /\ tasks[i].netState = "resolved"
       THEN [@ EXCEPT !.pc = "done", !.result = tasks[i].net,
                      !.via = "network", !.returns = @ + 1]
       ELSE [@ EXCEPT !.pc = "done", !.result = Timeout503,
                      !.via = "synthesized", !.returns = @ + 1]]
  /\ UNCHANGED << lifeVars, cacheVars, actVars, msgVars >>

\* networkWithTimeout called on its own: the fetch listener never reaches it
\* (DispatchIsCacheFirst).
NextTimeout ==
  \/ \E req \in Requests : CallNetworkWithTimeout(req)
  \/ \E i \in 1..Len(tasks) : NWTFetchSettles(i)
  \/ \E i \in 1..Len(tasks) : NWTTimerFires(i)
  \/ \E i \in 1..Len(tasks) : NWTReturn(i)

SpecTimeout == Init /\ [][NextTimeout]_vars

\* networkWithTimeout called with the GET requests to an external API, where
\* the timer is a setTimeout of the worker's event loop: once started it
\* fires, and an await whose promise has settled resumes. Nothing makes a
\* fetch settle.
NextExternalAPI ==
  \/ \E req \in {r \in Requests : r.method = "GET" /\ isExternalAPI(r.url)} :
       CallNetworkWithTimeout(req)
  \/ \E i \in 1..Len(tasks) : NWTFetchSettles(i)
  \/ \E i \in 1..Len(tasks) : NWTTimerFires(i)
  \/ \E i \in 1..Len(tasks) : NWTReturn(i)

SpecTimeoutFair ==
  /\ Init /\ [][NextExternalAPI]_vars
  /\ \A i \in 1..MaxCalls :
       /\ WF_vars(i <= Len(tasks) /\ NWTTimerFires(i))
       /\ WF_vars(i <= Len(tasks) /\ NWTReturn(i))

\* ------------------------------------------------- strategies called directly
\* The worker once its install and its activation have succeeded: both caches
\* populated (in the order their caches.open calls resolved), the old caches
\* evicted, the clients claimed.
InitActivated ==
  /\ lifecycle = "activated"
  /\ inst = [InstIdle EXCEPT !.static = "ok", !.dynamic = "ok", !.result = "ok"]
  /\ skipWaitingFlag = TRUE
  /\ cacheOrder \in { << STATIC_CACHE, DYNAMIC_CACHE >>,
                      << DYNAMIC_CACHE, STATIC_CACHE >> }
  /\ entries =
       [n \in CacheNames |->
          IF n = STATIC_CACHE
          THEN PutAll(EmptyEntries, ResolveAll(STATIC_ASSETS), NetResponse(200, 0))
          ELSE IF n = DYNAMIC_CACHE
          THEN PutAll(EmptyEntries, ResolveAll(PrimingList), NetResponse(200, 0))
          ELSE EmptyEntries]
  /\ staticIntact = TRUE
  /\ act = [ActIdle EXCEPT !.pc = "done"]
  /\ claimed = TRUE
  /\ tasks = << >>
  /\ clr = ClrIdle
  /\ versionReplies = {}

\* The requests a strategy is called with: a page that is not a listed
\* asset, and an image of the priming list (cached until a CLEAR_CACHE).
CallRequests ==
  { [method |-> "GET", url |-> Resolve("/nosotros"), accept |-> "text/html,application/xhtml+xml"],
    [method |-> "GET", url |-> Resolve(PRODUCT_IMAGES[1]), accept |-> "image/*"] }

\* cacheFirst(request) is called: caches.match(request) is issued.
CallCacheFirst(req) ==
  /\ Len(tasks) < MaxCalls
  /\ tasks' = Append(tasks, Started("cacheFirst", req))
  /\ UNCHANGED << lifeVars, cacheVars, actVars, msgVars >>

\* networkFirst(request) is called: fetch(request) is issued.
CallNetworkFirst(req) ==
  /\ Len(tasks) < MaxCalls
  /\ tasks' = Append(tasks, Started("networkFirst", req))
  /\ UNCHANGED << lifeVars, cacheVars, actVars, msgVars >>

\* networkFirst: fetch(request) resolves. An ok response waits for
\* caches.open(DYNAMIC_CACHE); any other is returned as it is.
NetworkFirstFetch(i) ==
  /\ tasks[i].pc = "nf_fetch"
  /\ \E status \in NetStatuses :
       LET resp == NetResponse(status, i)
       IN tasks' = [tasks EXCEPT ![i] =
            IF Ok(resp)
            THEN [@ EXCEPT !.pc = "nf_open", !.netState = "resolved",
                           !.net = resp, !.ops = @ \cup {"open"}]
            ELSE [@ EXCEPT !.pc = "done", !.netState = "resolved",
                           !.net = resp, !.result = resp, !.via = "network",
                           !.returns = @ + 1]]
  /\ UNCHANGED << lifeVars, cacheVars, actVars, msgVars >>

\* Mutant of NetworkFirstFetchFails: a rejected fetch is tried once more
\* before the catch block runs.
NetworkFirstFetchRetries(i) ==
  /\ tasks[i].pc = "nf_fetch"
  /\ tasks' = [tasks EXCEPT ![i] =
       IF tasks[i].fetches < 2
       THEN [@ EXCEPT !.fetches = @ + 1]
       ELSE [@ EXCEPT !.pc = "nf_match", !.netState = "rejected",
                      !.ops = @ \cup {"match"}]]
  /\ UNCHANGED << lifeVars, cacheVars, actVars, msgVars >>

\* networkFirst: fetch(request) rejects; the catch block calls
\* caches.match(request).
NetworkFirstFetchFails(i) ==
  /\ tasks[i].pc = "nf_fetch"
  /\ tasks' = [tasks EXCEPT ![i] =
       [@ EXCEPT !.pc = "nf_match", !.netState = "rejected",
                 !.ops = @ \cup {"match"}]]
  /\ UNCHANGED << lifeVars, cacheVars, actVars, msgVars >>

\* networkFirst: caches.open(DYNAMIC_CACHE) resolves; cache.put is called, not
\* awaited, and the network response is returned.
NetworkFirstOpen(i) ==
  /\ tasks[i].pc = "nf_open"
  /\ cacheOrder' = Opened(cacheOrder, DYNAMIC_CACHE)
  /\ tasks' = [tasks EXCEPT ![i] =
       [@ EXCEPT !.pc = "nf_put", !.ops = @ \cup {"put"},
                 !.cache = DYNAMIC_CACHE, !.live = TRUE,
                 !.result = tasks[i].net, !.via = "network", !.returns = @ + 1]]
  /\ UNCHANGED << lifeVars, entries, staticIntact, actVars, msgVars >>

\* Mutant of NetworkFirstPut: a key that is already there is not overwritten.
NetworkFirstPutKeepsFirst(i) ==
  /\ tasks[i].pc = "nf_put"
  /\ entries' =
       IF tasks[i].live /\ tasks[i].req.url \notin DOMAIN entries[DYNAMIC_CACHE]
       THEN [entries EXCEPT ![DYNAMIC_CACHE] =
               PutAll(@, {tasks[i].req.url}, tasks[i].net)]
       ELSE entries
  /\ tasks' = [tasks EXCEPT ![i] = [@ EXCEPT !.pc = "done"]]
  /\ UNCHANGED << lifeVars, cacheOrder, staticIntact, actVars, msgVars >>

\* networkFirst: the put completes, on the cache the task opened.
NetworkFirstPut(i) ==
  /\ tasks[i].pc = "nf_put"
  /\ entries' =
       IF tasks[i].live
       THEN [entries EXCEPT ![DYNAMIC_CACHE] =
               PutAll(@, {tasks[i].req.url}, tasks[i].net)]
       ELSE entries
  /\ tasks' = [tasks EXCEPT ![i] = [@ EXCEPT !.pc = "done"]]
  /\ UNCHANGED << lifeVars, cacheOrder, staticIntact, actVars, msgVars >>

\* Mutant of NetworkFirstMatch: a miss is answered 503 whatever the request
\* accepts.
NetworkFirstMatchNoOffline(i) ==
  /\ tasks[i].pc = "nf_match"
  /\ LET hit == Match(tasks[i].req.url)
     IN tasks' = [tasks EXCEPT ![i] =
          IF hit # NoResp
          THEN [@ EXCEPT !.pc = "done", !.result = hit, !.via = "cache",
                         !.returns = @ + 1]
          ELSE [@ EXCEPT !.pc = "done", !.result = NetworkFirst503,
                         !.via = "synthesized", !.returns = @ + 1]]
  /\ UNCHANGED << lifeVars, cacheVars, actVars, msgVars >>

\* networkFirst, catch block: caches.match(request) resolves. A hit is
\* returned; on a miss a request that accepts text/html goes on to
\* caches.match('/'), any other is answered 503.
NetworkFirstMatch(i) ==
  /\ tasks[i].pc = "nf_match"
  /\ LET hit == Match(tasks[i].req.url)
     IN tasks' = [tasks EXCEPT ![i] =
          IF hit # NoResp
          THEN [@ EXCEPT !.pc = "done", !.result = hit, !.via = "cache",
                         !.returns = @ + 1]
          ELSE IF AcceptsHtml(tasks[i].req)
          THEN [@ EXCEPT !.pc = "nf_offline", !.ops = @ \cup {"matchRoot"}]
          ELSE [@ EXCEPT !.pc = "done", !.result = NetworkFirst503,
                         !.via = "synthesized", !.returns = @ + 1]]
  /\ UNCHANGED << lifeVars, cacheVars, actVars, msgVars >>

\* networkFirst, catch block: caches.match('/') resolves. The cached root
\* document is returned when there is one, 503 otherwise.
NetworkFirstOffline(i) ==
  /\ tasks[i].pc = "nf_offline"
  /\ LET offlinePage == Match(Resolve("/"))
     IN tasks' = [tasks EXCEPT ![i] =
          IF offlinePage # NoResp
          THEN [@ EXCEPT !.pc = "done", !.result = offlinePage,
                         !.via = "cache", !.returns = @ + 1]
          ELSE [@ EXCEPT !.pc = "done", !.result = NetworkFirst503,
                         !.via = "synthesized", !.returns = @ + 1]]
  /\ UNCHANGED << lifeVars, cacheVars, actVars, msgVars >>

\* cacheFirst and networkFirst called on an activated worker, next to the
\* CLEAR_CACHE command of the page.
NextStrategies ==
  \/ MessageEvent("CLEAR_CACHE")
  \/ ClearKeys
  \/ \E n \in CacheNames : ClearDelete(n)
  \/ ClearReply
  \/ \E req \in CallRequests : CallCacheFirst(req)
  \/ \E i \in 1..Len(tasks) : CacheFirstMatch(i)
  \/ \E i \in 1..Len(tasks) : CacheFirstFetch(i)
  \/ \E i \in 1..Len(tasks) : CacheFirstFetchFails(i)
  \/ \E i \in 1..Len(tasks) : CacheFirstOpen(i)
  \/ \E i \in 1..Len(tasks) : CacheFirstPut(i)
  \/ \E req \in CallRequests : CallNetworkFirst(req)
  \/ \E i \in 1..Len(tasks) : NetworkFirstFetch(i)
  \/ \E i \in 1..Len(tasks) : NetworkFirstFetchFails(i)
  \/ \E i \in 1..Len(tasks) : NetworkFirstOpen(i)
  \/ \E i \in 1..Len(tasks) : NetworkFirstPut(i)
  \/ \E i \in 1..Len(tasks) : NetworkFirstMatch(i)
  \/ \E i \in 1..Len(tasks) : NetworkFirstOffline(i)

SpecStrategies == InitActivated /\ [][NextStrategies]_vars

\* ---------------------------------------------------------- storage failures
\* cacheFirst: caches.match(request) rejects; the catch block answers 503.
CacheFirstMatchFails(i) ==
  /\ tasks[i].pc = "cf_match"
  /\ tasks' = [tasks EXCEPT ![i] =
       [@ EXCEPT !.pc = "done", !.failed = "match",
                 !.result = CacheFirst503, !.via = "synthesized",
                 !.returns = @ + 1]]
  /\ UNCHANGED << lifeVars, cacheVars, actVars, msgVars >>

\* cacheFirst: caches.open(STATIC_CACHE) rejects inside the try block; the
\* catch block answers 503.
CacheFirstOpenFails(i) ==
  /\ tasks[i].pc = "cf_open"
  /\ tasks' = [tasks EXCEPT ![i] =
       [@ EXCEPT !.pc = "done", !.failed = "open",
                 !.result = CacheFirst503, !.via = "synthesized",
                 !.returns = @ + 1]]
  /\ UNCHANGED << lifeVars, cacheVars, actVars, msgVars >>

\* cacheFirst: the put, which nothing awaits, rejects: nothing is written and
\* what was returned stays returned.
CacheFirstPutFails(i) ==
  /\ tasks[i].pc = "cf_put"
  /\ tasks' = [tasks EXCEPT ![i] =
       [@ EXCEPT !.pc = "done", !.failed = "put", !.live = FALSE]]
  /\ UNCHANGED << lifeVars, cacheVars, actVars, msgVars >>

\* networkFirst: caches.open(DYNAMIC_CACHE) rejects inside the try block; the
\* catch block takes it for a network failure and calls caches.match(request).
NetworkFirstOpenFails(i) ==
  /\ tasks[i].pc = "nf_open"
  /\ tasks' = [tasks EXCEPT ![i] =
       [@ EXCEPT !.pc = "nf_match", !.failed = "open",
                 !.ops = @ \cup {"match"}]]
  /\ UNCHANGED << lifeVars, cacheVars, actVars, msgVars >>

\* networkFirst: the put, which nothing awaits, rejects.
NetworkFirstPutFails(i) ==
  /\ tasks[i].pc = "nf_put"
  /\ tasks' = [tasks EXCEPT ![i] =
       [@ EXCEPT !.pc = "done", !.failed = "put", !.live = FALSE]]
  /\ UNCHANGED << lifeVars, cacheVars, actVars, msgVars >>

\* networkFirst, catch block: caches.match(request) rejects. Nothing catches
\* it: the promise networkFirst returned rejects.
NetworkFirstMatchFails(i) ==
  /\ tasks[i].pc = "nf_match"
  /\ tasks' = [tasks EXCEPT ![i] =
       [@ EXCEPT !.pc = "done", !.failed = "match", !.via = "rejected"]]
  /\ UNCHANGED << lifeVars, cacheVars, actVars, msgVars >>

\* networkFirst, catch block: caches.match('/') rejects, with the same end.
NetworkFirstOfflineFails(i) ==
  /\ tasks[i].pc = "nf_offline"
  /\ tasks' = [tasks EXCEPT ![i] =
       [@ EXCEPT !.pc = "done", !.failed = "matchRoot", !.via = "rejected"]]
  /\ UNCHANGED << lifeVars, cacheVars, actVars, msgVars >>

\* The three strategies called on an activated worker whose cache storage
\* may fail: any caches.match, caches.open or cache.put may reject.
NextStorageFailure ==
  \/ MessageEvent("CLEAR_CACHE")
  \/ ClearKeys
  \/ \E n \in CacheNames : ClearDelete(n)
  \/ ClearReply
  \/ Len(tasks) < MaxStorageCalls /\ \E req \in CallRequests : CallCacheFirst(req)
  \/ Len(tasks) < MaxStorageCalls /\ \E req \in CallRequests : CallNetworkFirst(req)
  \/ Len(tasks) < MaxStorageCalls /\ \E req \in CallRequests : CallNetworkWithTimeout(req)
  \/ \E i \in 1..Len(tasks) : CacheFirstMatch(i)
  \/ \E i \in 1..Len(tasks) : CacheFirstMatchFails(i)
  \/ \E i \in 1..Len(tasks) : CacheFirstFetch(i)
  \/ \E i \in 1..Len(tasks) : CacheFirstFetchFails(i)
  \/ \E i \in 1..Len(tasks) : CacheFirstOpen(i)
  \/ \E i \in 1..Len(tasks) : CacheFirstOpenFails(i)
  \/ \E i \in 1..Len(tasks) : CacheFirstPut(i)
  \/ \E i \in 1..Len(tasks) : CacheFirstPutFails(i)
  \/ \E i \in 1..Len(tasks) : NetworkFirstFetch(i)
  \/ \E i \in 1..Len(tasks) : NetworkFirstFetchFails(i)
  \/ \E i \in 1..Len(tasks) : NetworkFirstOpen(i)
  \/ \E i \in 1..Len(tasks) : NetworkFirstOpenFails(i)
  \/ \E i \in 1..Len(tasks) : NetworkFirstPut(i)
  \/ \E i \in 1..Len(tasks) : NetworkFirstPutFails(i)
  \/ \E i \in 1..Len(tasks) : NetworkFirstMatch(i)
  \/ \E i \in 1..Len(tasks) : NetworkFirstMatchFails(i)
  \/ \E i \in 1..Len(tasks) : NetworkFirstOffline(i)
  \/ \E i \in 1..Len(tasks) : NetworkFirstOfflineFails(i)
  \/ \E i \in 1..Len(tasks) : NWTFetchSettles(i)
  \/ \E i \in 1..Len(tasks) : NWTTimerFires(i)
  \/ \E i \in 1..Len(tasks) : NWTReturn(i)

SpecStorageFailure == InitActivated /\ [][NextStorageFailure]_vars

\* ------------------------------------------------------------------- claims
Task(i) == tasks[i]

TaskIds == 1..Len(tasks)

\* The absolute URLs of the static-asset list.
StaticListUrls == ResolveAll(STATIC_ASSETS)

EndsWith(s, suffix) ==
  Len(s) >= Len(suffix) /\ SubSeq(s, Len(s) + 1 - Len(suffix), Len(s)) = suffix

\* The classes of section 4.1 of the specification, on URLs that carry no
\* query and no fragment (the path ends where the URL ends).
ClassStaticAsset(url) ==
  \/ url \in StaticListUrls
  \/ \E ext \in {".css", ".js", ".woff", ".woff2"} : EndsWith(url, ext)

ClassImage(url) ==
  /\ ~ClassStaticAsset(url)
  /\ \/ \E ext \in {".jpg", ".jpeg", ".png", ".webp", ".svg"} : EndsWith(url, ext)
     \/ Includes(url, "/productos/")
     \/ Includes(url, "/sucursal_")

ClassExternalAPI(req) ==
  /\ ~ClassStaticAsset(req.url)
  /\ ~ClassImage(req.url)
  /\ ~AcceptsHtml(req)
  /\ isExternalAPI(req.url)

\* The request of task t was answered from the cache: no fetch was issued
\* for it and no cache was opened or written.
FromCacheOnly(t) ==
  /\ t.fetches = 0
  /\ t.ops \subseteq {"match"}
  /\ t.pc = "done" => t.via = "cache" /\ Ok(t.result)

\* Every GET request is handed to cacheFirst: "/" is an entry of
\* STATIC_ASSETS and every absolute URL includes it.
DispatchIsCacheFirst ==
  \A i \in TaskIds :
    Task(i).req.method = "GET" /\ Task(i).responded
      => Task(i).strategy = "cacheFirst"

\* C1 (as stated): after a successful install (fetch events reach only an
\* activated worker, whose install succeeded), every GET request for a URL
\* of the static-asset list is answered from the cache, with no network
\* fetch and no cache modified.
C1_StaticAlwaysFromCache ==
  \A i \in TaskIds :
    Task(i).req.method = "GET" /\ Task(i).req.url \in StaticListUrls
      => FromCacheOnly(Task(i))

\* C1 (amended): the same, as long as the static cache populated by the
\* install has not been deleted since (CLEAR_CACHE deletes every cache).
C1_StaticFromCacheWhileIntact ==
  staticIntact => C1_StaticAlwaysFromCache

C1_Witness ==
  /\ staticIntact
  /\ \E i \in TaskIds :
       /\ Task(i).req.method = "GET"
       /\ Task(i).req.url \in StaticListUrls
       /\ Task(i).pc = "done"
       /\ Task(i).via = "cache"

\* C2: a request whose method is not GET is not answered by the worker (no
\* respondWith) and causes no cache lookup, no cache open, no cache write
\* and no fetch by the worker.
C2_NonGetBypassesCaches ==
  \A i \in TaskIds :
    Task(i).req.method # "GET"
      => /\ ~Task(i).responded
         /\ Task(i).strategy = "none"
         /\ Task(i).ops = {}
         /\ Task(i).fetches = 0
         /\ Task(i).pc = "done"
         /\ Task(i).result = NoResp

C2_Witness ==
  \E i \in TaskIds : Task(i).req.method = "POST" /\ ~Task(i).responded

\* C3 (as stated): a GET request classified Image by the specification (not
\* a listed static asset, no static extension, an image extension or an
\* image directory marker) is handed to networkFirst, and is answered with
\* networkFirst's 503 when the network fails and nothing is cached.
C3_ImageIsNetworkFirst ==
  \A i \in TaskIds :
    Task(i).req.method = "GET" /\ ClassImage(Task(i).req.url)
      => /\ Task(i).strategy = "networkFirst"
         /\ Task(i).netState = "rejected" /\ Task(i).pc = "done"
              => Task(i).result = NetworkFirst503

\* C4 (as stated): a GET request classified ExternalAPI is run by
\* networkWithTimeout, reads no cache and writes none; no cache ever holds
\* an entry keyed by an external-API URL.
C4_ExternalNeverCached ==
  /\ \A i \in TaskIds :
       Task(i).req.method = "GET" /\ ClassExternalAPI(Task(i).req)
         => /\ Task(i).strategy = "networkWithTimeout"
            /\ Task(i).ops \subseteq {"fetch"}
  /\ \A n \in CacheNames : \A u \in DOMAIN entries[n] : ~isExternalAPI(u)

\* C5: when an activate run completes it has deleted exactly the caches it
\* enumerated whose name is neither the static nor the dynamic name, so no
\* other cache is left; a delete of the activate never touches the two
\* current caches or their entries, whatever fetch tasks do meanwhile; and
\* an activate run after a finished one deletes nothing.
C5_ActivateEvictsExactlyStale ==
  [][ /\ (act.pc = "deleting" /\ act'.pc = "done")
         => /\ act.deleted = act.names \ {STATIC_CACHE, DYNAMIC_CACHE}
            /\ act.names \ act.deleted = act.names \cap {STATIC_CACHE, DYNAMIC_CACHE}
            /\ Range(cacheOrder') \subseteq {STATIC_CACHE, DYNAMIC_CACHE}
            /\ act.rerun => act.deleted = {}
      /\ (act.pc = "deleting" /\ act'.pc = "deleting" /\ act'.deleted # act.deleted)
         => /\ entries'[STATIC_CACHE] = entries[STATIC_CACHE]
            /\ entries'[DYNAMIC_CACHE] = entries[DYNAMIC_CACHE]
            /\ \A n \in {STATIC_CACHE, DYNAMIC_CACHE} :
                 n \in Range(cacheOrder') <=> n \in Range(cacheOrder)
    ]_vars

\* An activate is about to complete having deleted both old caches, the two
\* current ones being there.
C5_Witness ==
  /\ act.pc = "deleting"
  /\ act.pending = {}
  /\ act.deleted = Range(OLD_CACHES)
  /\ Range(cacheOrder) = {STATIC_CACHE, DYNAMIC_CACHE}

\* C6 (as stated): the version posted in answer to GET_VERSION is the name
\* of the current static cache.
C6_VersionIsStaticName ==
  \A r \in versionReplies : r.version = STATIC_CACHE

\* C7 (as stated): when {success: true} is posted no cache exists.
C7_NoCacheAtReply ==
  [][ (clr.pc = "deleting" /\ clr'.pc = "replied") => cacheOrder' = << >> ]_vars

\* C7 (amended): {success: true} is posted only after the delete of every
\* cache the clear enumerated has completed.
C7_ReplyAfterDeletes ==
  [][ (clr.pc = "deleting" /\ clr'.pc = "replied")
        => clr.deleted = clr.names ]_vars

\* A clear is about to reply, all the caches it enumerated deleted, while a
\* fetch task is in flight.
C7_Witness ==
  /\ clr.pc = "deleting"
  /\ clr.pending = {}
  /\ clr.names # {}
  /\ \E i \in TaskIds : Task(i).pc # "done"

\* C8 (as stated): when an asset of the static list fails at install, the
\* install is reported failed and no listed asset is in the static cache.
C8_NothingRetained ==
  inst.static = "failed"
    => /\ inst.result = "failed"
       /\ \A u \in StaticListUrls : u \notin DOMAIN entries[STATIC_CACHE]

\* C9 (as stated): when the static population succeeds and the priming of
\* the dynamic cache fails, the install resolves successfully.
C9_PrimingNonFatal ==
  inst.static = "ok" /\ inst.dynamic = "failed" => inst.result = "ok"

\* C10: a networkWithTimeout call returns exactly once, and what it returns
\* is decided by what settled first: the network response when the fetch
\* resolved first, the 503 when the timer fired first or the fetch rejected
\* first; what settles later changes nothing.
C10_ExactlyOneOutcome ==
  \A i \in TaskIds :
    Task(i).strategy = "networkWithTimeout"
      => /\ Task(i).pc = "nwt_race" => Task(i).returns = 0 /\ Task(i).result = NoResp
         /\ Task(i).pc = "done"
              => /\ Task(i).returns = 1
                 /\ \/ /\ Task(i).race = "network"
                       /\ Task(i).netState = "resolved"
                       /\ Task(i).result = Task(i).net
                    \/ /\ Task(i).race = "timer" \/ Task(i).netState = "rejected"
                       /\ Task(i).result = Timeout503

\* A call has returned the network response and its timer has fired since.
C10_Witness ==
  \E i \in TaskIds :
    /\ Task(i).strategy = "networkWithTimeout"
    /\ Task(i).pc = "done"
    /\ Task(i).race = "network"
    /\ Task(i).timer = "fired"
    /\ Task(i).result = Task(i).net
    /\ Ok(Task(i).result)

\* C11 (as stated): once networkFirst has returned a successful network
\* response, a caches.match for the same request right after the return,
\* before anything else of the task runs, finds an entry equal to the
\* response returned.
C11_RoundTrip ==
  \A i \in TaskIds :
    /\ Task(i).strategy = "networkFirst"
    /\ Task(i).pc = "nf_put"
    /\ Task(i).returns = 1
    /\ Ok(Task(i).result)
    => Match(Task(i).req.url) = Task(i).result

\* The promise of task t has settled with a response: the network's, a
\* cached one or a synthesized 503.
WellFormed(t) ==
  /\ t.result # NoResp
  /\ \/ t.via = "network" /\ t.result = t.net
     \/ t.via = "cache" /\ Ok(t.result)
     \/ t.via = "synthesized" /\ t.result.status = 503 /\ t.result.body # ""

\* C12 (as stated): whatever fails (the fetch, the timer running out, a
\* caches.match, caches.open or cache.put, the lookups of a fallback path
\* included), a strategy called with a GET request completes with a
\* well-formed response, never with a rejection.
C12_AlwaysWellFormed ==
  \A i \in TaskIds :
    Task(i).req.method = "GET" /\ Task(i).strategy # "none" /\ Task(i).pc = "done"
      => WellFormed(Task(i))

\* C13 (as stated): in cacheFirst and networkFirst, when the fetch resolved
\* with an ok response and storing it failed (caches.open rejected or
\* cache.put rejected), the call completes with that network response.
C13_StorageFailureKeepsResponse ==
  \A i \in TaskIds :
    /\ Task(i).strategy \in {"cacheFirst", "networkFirst"}
    /\ Task(i).pc = "done"
    /\ Task(i).netState = "resolved"
    /\ Ok(Task(i).net)
    /\ Task(i).failed \in {"open", "put"}
    => Task(i).result = Task(i).net /\ Task(i).via = "network"

\* C14: no retry. A strategy called with a GET request issues at most one
\* network fetch for it, whatever fails on the way (the fetch, the timer, the
\* cache storage) and whatever it ends with; cacheFirst issues none on a hit.
C14_AtMostOneFetch ==
  \A i \in TaskIds :
    Task(i).req.method = "GET"
      => /\ Task(i).fetches <= 1
         /\ Task(i).fetches = 1 <=> Task(i).netState # "none"
         /\ Task(i).strategy = "cacheFirst" /\ Task(i).via = "cache"
              => Task(i).fetches = 0

\* A networkFirst call went through its whole failure path (fetch rejected,
\* both lookups missed, 503) on its single fetch.
C14_Witness ==
  \E i \in TaskIds :
    /\ Task(i).strategy = "networkFirst"
    /\ Task(i).pc = "done"
    /\ Task(i).netState = "rejected"
    /\ Task(i).result = NetworkFirst503
    /\ {"match", "matchRoot"} \subseteq Task(i).ops
    /\ Task(i).fetches = 1

\* C15: every networkWithTimeout call eventually returns a response, also
\* when its fetch never settles: the timer fires and the 503 is returned.
C15_EventuallyReturns ==
  \A i \in 1..MaxCalls :
    (i <= Len(tasks)) ~> (i <= Len(tasks) /\ tasks[i].pc = "done"
                                           /\ tasks[i].returns = 1
                                           /\ tasks[i].result # NoResp)

\* A call has returned the 503 while its fetch is still pending.
C15_Witness ==
  \E i \in TaskIds :
    /\ Task(i).strategy = "networkWithTimeout"
    /\ Task(i).pc = "done"
    /\ Task(i).netState = "pending"
    /\ Task(i).timer = "fired"
    /\ Task(i).result = Timeout503

\* C16 (as stated): cacheFirst returns a cached response, without a fetch,
\* only when the request's key is in the static cache, and then returns that
\* entry; a key that is in the dynamic cache only is fetched from the
\* network, and a successful response is put into the static cache.
C16_ConsultsOnlyStatic ==
  [][ \A i \in 1..Len(tasks) :
        tasks[i].pc = "cf_match" /\ tasks'[i].pc # "cf_match"
          => IF /\ STATIC_CACHE \in Range(cacheOrder)
                /\ tasks[i].req.url \in DOMAIN entries[STATIC_CACHE]
             THEN /\ tasks'[i].pc = "done"
                  /\ tasks'[i].result = entries[STATIC_CACHE][tasks[i].req.url]
             ELSE /\ tasks'[i].pc = "cf_fetch"
                  /\ tasks'[i].fetches = 1
    ]_vars

\* What the static and the dynamic cache hold under url, now.
CachedUnder(url) ==
  { entries[n][url] : n \in { c \in {STATIC_CACHE, DYNAMIC_CACHE} :
                                c \in Range(cacheOrder) /\ url \in DOMAIN entries[c] } }

\* C17 (as stated): when networkFirst, its fetch having failed, returns, it
\* returns (1) the cached response of the request when the static or the
\* dynamic cache holds one, (2) otherwise the cached root document when the
\* request accepts text/html and "/" is cached, (3) otherwise the 503: the
\* 503 is never returned while (1) or (2) could be satisfied.
C17_FallbackOrderAtReturn ==
  [][ \A i \in 1..Len(tasks) :
        /\ tasks[i].pc \in {"nf_match", "nf_offline"}
        /\ tasks[i].netState = "rejected"
        /\ tasks'[i].pc = "done"
        => IF CachedUnder(tasks[i].req.url) # {}
           THEN tasks'[i].result \in CachedUnder(tasks[i].req.url)
           ELSE IF AcceptsHtml(tasks[i].req) /\ CachedUnder(Resolve("/")) # {}
           THEN tasks'[i].result \in CachedUnder(Resolve("/"))
           ELSE tasks'[i].result = NetworkFirst503
    ]_vars

\* C17 (amended): the same order, each step decided by what the caches hold
\* when its lookup resolves: the lookup of the request returns the cached
\* response when there is one; when there is none, a request that accepts
\* text/html goes on to the lookup of "/", which returns the cached root
\* document when there is one; the 503 is returned only by a lookup that
\* missed (the request's for a request that does not accept text/html, the
\* root's otherwise).
C17_FallbackOrderPerLookup ==
  [][ \A i \in 1..Len(tasks) :
        /\ (tasks[i].pc = "nf_match" /\ tasks'[i].pc # "nf_match"
              /\ tasks[i].netState = "rejected")
           => IF CachedUnder(tasks[i].req.url) # {}
              THEN /\ tasks'[i].pc = "done"
                   /\ tasks'[i].result \in CachedUnder(tasks[i].req.url)
              ELSE IF AcceptsHtml(tasks[i].req)
              THEN /\ tasks'[i].pc = "nf_offline"
                   /\ tasks'[i].result = NoResp
              ELSE /\ tasks'[i].pc = "done"
                   /\ tasks'[i].result = NetworkFirst503
        /\ (tasks[i].pc = "nf_offline" /\ tasks'[i].pc # "nf_offline")
           => /\ tasks'[i].pc = "done"
              /\ IF CachedUnder(Resolve("/")) # {}
                 THEN tasks'[i].result \in CachedUnder(Resolve("/"))
                 ELSE tasks'[i].result = NetworkFirst503
    ]_vars

\* A page request whose fetch failed and whose own lookup missed is about to
\* get the cached root document.
C17_Witness ==
  \E i \in TaskIds :
    /\ Task(i).strategy = "networkFirst"
    /\ Task(i).pc = "nf_offline"
    /\ Task(i).netState = "rejected"
    /\ CachedUnder(Task(i).req.url) = {}
    /\ CachedUnder(Resolve("/")) # {}

\* C18: cacheFirst and networkFirst write an entry only for a successful
\* network response. Every entry of every cache is an ok response that came
\* from the network, never a synthesized 503; and an entry appears or
\* changes only when the put of a task completes, under the key of the
\* task's request, to the ok response the task's fetch resolved with.
C18_OnlySuccessfulWrites ==
  [][ \A n \in CacheNames :
        /\ \A k \in DOMAIN entries[n] :
             Ok(entries[n][k]) /\ entries[n][k].body = "network"
        /\ \A k \in DOMAIN entries'[n] :
             /\ Ok(entries'[n][k]) /\ entries'[n][k].body = "network"
             /\ (k \notin DOMAIN entries[n] \/ entries'[n][k] # entries[n][k])
                => \E i \in 1..Len(tasks) :
                     /\ tasks[i].pc \in {"cf_put", "nf_put"}
                     /\ tasks'[i].pc = "done"
                     /\ tasks[i].req.url = k
                     /\ tasks[i].cache = n
                     /\ tasks[i].netState = "resolved"
                     /\ Ok(tasks[i].net)
                     /\ entries'[n][k] = tasks[i].net
    ]_vars

\* A call has returned a response of the network that is not ok, its put
\* skipped: no cache holds the request's key.
C18_Witness ==
  \E i \in TaskIds :
    /\ Task(i).strategy \in {"cacheFirst", "networkFirst"}
    /\ Task(i).pc = "done"
    /\ Task(i).via = "network"
    /\ ~Ok(Task(i).result)
    /\ "put" \notin Task(i).ops
    /\ \A n \in CacheNames : Task(i).req.url \notin DOMAIN entries[n]

\* C19 (as stated): control of the clients is claimed only after the
\* eviction of the activate has finished: in no state is control claimed
\* while a cache whose name is neither the static nor the dynamic name, there
\* since before the activation, still exists.
C19_ClaimAfterEviction ==
  claimed => \A n \in Range(cacheOrder) : ~IsStale(n)

\* The calls of sequence t that have written the key url into cache n, by a
\* put that has completed; with kept, those only whose cache has not been
\* deleted since.
WritersOf(t, n, url, kept) ==
  { i \in 1..Len(t) :
      /\ t[i].pc = "done"
      /\ "put" \in t[i].ops
      /\ t[i].cache = n
      /\ t[i].req.url = url
      /\ kept => t[i].live }

\* C20 (as stated): when two calls of the same strategy for the same key have
\* both fetched and both written, then, both being finished, the cache they
\* write to holds an entry for the key, equal to the response one of the two
\* wrote.
C20_OneOfTheTwoWrites ==
  \A i, j \in TaskIds :
    /\ i # j
    /\ {i, j} \subseteq WritersOf(tasks, Task(i).cache, Task(i).req.url, FALSE)
    => /\ Task(i).cache \in Range(cacheOrder)
       /\ Task(i).req.url \in DOMAIN entries[Task(i).cache]
       /\ entries[Task(i).cache][Task(i).req.url] \in {Task(i).net, Task(j).net}

\* C20 (amended): the writes of calls for the same key race last-write-wins.
\* A put that completes sets the entry of its key, in its cache, to the
\* response of its own call, whatever was there, and touches no other key
\* and no other cache; and as long as the cache has not been deleted since,
\* the entry of a key that calls have written is there and equals the
\* response one of these calls wrote.
C20_LastWriteWins ==
  [][ /\ \A i \in 1..Len(tasks) :
           /\ tasks[i].pc \in {"cf_put", "nf_put"}
           /\ tasks'[i].pc = "done"
           /\ tasks[i].live
           => /\ entries'[tasks[i].cache][tasks[i].req.url] = tasks[i].net
              /\ \A n \in CacheNames : \A k \in DOMAIN entries[n] :
                   n # tasks[i].cache \/ k # tasks[i].req.url
                     => k \in DOMAIN entries'[n] /\ entries'[n][k] = entries[n][k]
      /\ \A i \in 1..Len(tasks') :
           LET n == tasks'[i].cache
               url == tasks'[i].req.url
               writers == WritersOf(tasks', n, url, TRUE)
           IN i \in writers
                => /\ n \in Range(cacheOrder')
                   /\ url \in DOMAIN entries'[n]
                   /\ entries'[n][url] \in {tasks'[j].net : j \in writers}
    ]_vars

\* Two calls of the same strategy for the same key have both written, the
\* cache still there: the entry is the response of the second call while a
\* put of the first call completed too.
C20_Witness ==
  \E i, j \in TaskIds :
    /\ i < j
    /\ {i, j} \subseteq WritersOf(tasks, Task(i).cache, Task(i).req.url, TRUE)
    /\ Task(i).net # Task(j).net
    /\ entries[Task(i).cache][Task(i).req.url] = Task(j).net

====
